---- MODULE Spec2Model ----
(***************************************************************************)
(* A model of tools/cmdr.py, the MDM command generator: one invocation of  *)
(* main() parses the process arguments, builds one command body, wraps it  *)
(* in an envelope with a CommandUUID and dumps it as a property list.      *)
(*                                                                         *)
(* Python values are modelled as follows.                                  *)
(*   str           a TLA+ string; the CommandUUID strings, whose syntax    *)
(*                 matters, are sequences of one-character strings         *)
(*   None / value  the empty sequence / a one-element sequence             *)
(*   dict          a function from its keys (a key that is not in the      *)
(*                 DOMAIN is a key the dict does not have)                 *)
(*   Namespace     a function from the attribute names it has, so that     *)
(*                 hasattr(args, "x") is "x" \in DOMAIN args               *)
(*   bytes         a sequence of 0..255                                    *)
(***************************************************************************)
EXTENDS Integers, Sequences, FiniteSets, TLC

\* ------------------------------------------------------------- bounds

\* Invocations of the tool the model follows one after the other.
MaxRuns == 3

\* The longest list of DeviceInformation queries on a command line.
MaxQueries == 2

\* ------------------------------------------------------ python values

None == << >>

Some(v) == << v >>

hasattr(ns, name) == name \in DOMAIN ns

\* {} : the dict without keys (also the value of `c` before it is built).
EmptyDict == [k \in {} |-> ""]

\* All sequences over S of length at most n.
SeqUpTo(S, n) == UNION { [1..k -> S] : k \in 0..n }

\* ---------------------------------------------------------- uuid.uuid4

HexDigits == << "0", "1", "2", "3", "4", "5", "6", "7",
                "8", "9", "a", "b", "c", "d", "e", "f" >>

HexChars == { HexDigits[i] : i \in 1..16 }

\* os.urandom(16), the k-th block the entropy source hands out.  The source
\* is taken to be a stream that does not repeat a block: block k differs
\* from every block before it (its first byte is k).
urandom(k) == [i \in 1..16 |-> (k * i) % 256]

\* int.from_bytes(bytes, "big") as 32 hex nibbles, most significant first.
Nibbles(bytes) ==
    [n \in 1..32 |-> IF n % 2 = 1 THEN bytes[(n + 1) \div 2] \div 16
                                  ELSE bytes[n \div 2] % 16]

\* uuid.UUID(bytes=..., version=4): the variant bits are set to 10 (the top
\* of nibble 17) and the version nibble, nibble 13, to 4.
UUID4(bytes) ==
    [n \in 1..32 |-> CASE n = 13 -> 4
                       [] n = 17 -> 8 + (Nibbles(bytes)[n] % 4)
                       [] OTHER  -> Nibbles(bytes)[n]]

\* Mutant of UUIDStr: the 32 digits without the hyphens (UUID.hex).
UUIDStr_Hex(nib) ==
    [n \in 1..32 |-> HexDigits[nib[n] + 1]]

\* str(UUID): '%032x' cut 8-4-4-4-12 and joined by hyphens.
UUIDStr(nib) ==
    LET hex == [n \in 1..32 |-> HexDigits[nib[n] + 1]]
    IN  SubSeq(hex, 1, 8) \o << "-" >> \o SubSeq(hex, 9, 12) \o << "-" >> \o
        SubSeq(hex, 13, 16) \o << "-" >> \o SubSeq(hex, 17, 20) \o << "-" >> \o
        SubSeq(hex, 21, 32)

\* str(uuid.uuid4()) on the k-th block of entropy (line 112).
uuid4(k) == UUIDStr(UUID4(urandom(k)))

\* A syntactically valid UUID string: 8-4-4-4-12 hexadecimal digits.
HyphenAt == {9, 14, 19, 24}

IsValidUUID(s) ==
    /\ Len(s) = 36
    /\ \A i \in 1..36 : IF i \in HyphenAt THEN s[i] = "-" ELSE s[i] \in HexChars

\* ------------------------------------------------- the command line

\* The parameterless commands main() registers, in its order (lines 126-148).
SimpleCommands ==
    << "ProfileList", "ProvisioningProfileList", "CertificateList",
       "SecurityInfo", "RestartDevice", "ShutDownDevice", "StopMirroring",
       "ClearRestrictionsPassword", "UserList", "LogOutUser",
       "PlayLostModeSound", "DisableLostMode", "DeviceLocation",
       "ManagedMediaList", "DeviceConfigured", "AvailableOSUpdates",
       "NSExtensionMappings", "OSUpdateStatus", "EnableRemoteDesktop",
       "DisableRemoteDesktop", "ActivationLockBypassCode" >>

SimpleCommandNames == { SimpleCommands[i] : i \in DOMAIN SimpleCommands }

\* Mutant of read_only_commands: a command that is not read-only in the list.
read_only_commands_WithRestart ==
    << "SecurityInfo", "CertificateList", "ProfileList", "RestartDevice" >>

\* random.choice draws from this list (lines 168-173).
read_only_commands ==
    << "SecurityInfo", "CertificateList", "ProfileList",
       "ProvisioningProfileList" >>

\* The files InstallProfile can be pointed at: one with contents, an empty
\* one, a path open() fails on, and a file that opens but whose read() fails.
Files ==
    [p \in { "profile.mobileconfig", "empty.mobileconfig",
             "missing.mobileconfig", "ioerror.mobileconfig" } |->
        CASE p = "profile.mobileconfig" ->
                 [openable |-> TRUE, readable |-> TRUE, bytes |-> << 60, 0, 255, 10 >>]
          [] p = "empty.mobileconfig" ->
                 [openable |-> TRUE, readable |-> TRUE, bytes |-> << >>]
          [] p = "missing.mobileconfig" ->
                 [openable |-> FALSE, readable |-> FALSE, bytes |-> << >>]
          [] OTHER ->
                 [openable |-> TRUE, readable |-> FALSE, bytes |-> << >>]]

Paths == DOMAIN Files

\* Strings given as DeviceInformation queries, RemoveProfile identifiers and
\* request types of the generic `command`.
QueryStrings == { "Model", "OSVersion" }

Identifiers == { "com.example.profile", "" }

RequestTypes == { "SecurityInfo", "NotAnMDMCommand", "DeviceInformation",
                  "InstallProfile", "" }

\* Strings given to -u/--uuid: a UUID, and two strings that are none.
UserUUID == << "1", "2", "3", "4", "5", "6", "7", "8", "-", "9", "a", "b", "c", "-", "4", "d", "e", "f", "-", "8", "0", "1", "2", "-", "3", "4", "5", "6", "7", "8", "9", "a", "b", "c", "d", "e" >>

UserUuidStrings == { UserUUID, << "f", "o", "o" >>, << >> }

\* What follows the global options: nothing, or a subcommand and its arguments.
SubArgvs ==
    { << >>, << "NoSuchCommand" >> }
    \cup { << n >> : n \in SimpleCommandNames }
    \cup { << "DeviceInformation" >> \o q : q \in SeqUpTo(QueryStrings, MaxQueries) }
    \cup { << "InstallProfile" >> \o p : p \in SeqUpTo(Paths, 1) }
    \cup { << "RemoveProfile" >> \o i : i \in SeqUpTo(Identifiers, 1) }
    \cup { << "command" >> \o r : r \in SeqUpTo(RequestTypes, 1) }

\* A command line: -u STRING given or not, -r given or not, then the
\* subcommand part.  Command lines that ask argparse for its help text
\* (-h, --help) are not among them.
Argvs ==
    [ uuid : { None } \cup { Some(u) : u \in UserUuidStrings },
      random : BOOLEAN,
      sub : SubArgvs ]

\* ---------------------------------------------------- command builders

\* simple_command(request_type): the closure, with the cell it captures.
simple_command(request_type) ==
    [fn |-> "simple_command_body", request_type |-> request_type]

\* The captured request_type after simple_command_body ran (lines 13-15).
simple_command_cell(request_type, args) ==
    IF request_type = None /\ hasattr(args, "request_type")
    THEN Some(args.request_type)
    ELSE request_type

\* simple_command_body(args), given the captured request_type (lines 12-16).
simple_command_body(request_type, args) ==
    LET cell == simple_command_cell(request_type, args)
    IN  [RequestType |-> IF cell = None THEN None ELSE cell[1]]

\* plistlib.Data(b): the wrapper that marks b as binary data.
Data(b) == [data |-> b]

\* file.read(): everything from the file's position to its end.
read(file) ==
    SubSeq(Files[file.name].bytes, file.pos + 1, Len(Files[file.name].bytes))

\* install_profile(args) (lines 21-25).
install_profile(args) ==
    [RequestType |-> "InstallProfile", Payload |-> Data(read(args.mobileconfig))]

\* remove_profile(args) (lines 28-32).
remove_profile(args) ==
    [RequestType |-> "RemoveProfile", Identifier |-> args.identifier]

\* Mutant of dev_info: Queries is set whenever the attribute exists, an empty
\* list included.
dev_info_AlwaysQueries(args) ==
    IF hasattr(args, "query")
    THEN [RequestType |-> "DeviceInformation", Queries |-> args.query]
    ELSE [RequestType |-> "DeviceInformation"]

\* dev_info(args) (lines 35-41).
dev_info(args) ==
    IF hasattr(args, "query") /\ args.query # << >>
    THEN [RequestType |-> "DeviceInformation", Queries |-> args.query]
    ELSE [RequestType |-> "DeviceInformation"]

\* ------------------------------------------------------------ argparse

\* A parse that succeeded with namespace ns, and one that ended in
\* parser.error() (usage and message on standard error, exit status 2).
Parsed(ns) == [status |-> "ok", ns |-> ns]

ParseError == [status |-> "error", ns |-> EmptyDict]

\* Mutant of simple_command_subparser: the closure is bound late, to the last
\* name the loop of lines 126-149 went through.
simple_command_subparser_LateBound(request_type, rest) ==
    IF rest # << >> THEN ParseError
    ELSE Parsed([func |-> simple_command(Some(SimpleCommands[Len(SimpleCommands)]))])

\* The subparser of a parameterless command, on the arguments after its name:
\* it takes none, and sets func to the closure over its own name (lines 84-90).
simple_command_subparser(request_type, rest) ==
    IF rest # << >> THEN ParseError
    ELSE Parsed([func |-> simple_command(Some(request_type))])

\* DeviceInformation [query ...] (lines 44-55).
dev_info_subparser(rest) ==
    Parsed([query |-> rest, func |-> [fn |-> "dev_info"]])

\* Mutant of inst_prof_subparser: the path is taken as a string and the file
\* is opened only when it is read.
inst_prof_subparser_LazyOpen(rest) ==
    IF Len(rest) # 1 THEN ParseError
    ELSE Parsed([mobileconfig |-> [name |-> rest[1], pos |-> 0],
                 func |-> [fn |-> "install_profile"]])

\* InstallProfile mobileconfig: argparse.FileType("rb") opens the file while
\* the arguments are parsed, and a failed open is a parse error (lines 58-68).
inst_prof_subparser(rest) ==
    IF Len(rest) # 1 THEN ParseError
    ELSE IF ~Files[rest[1]].openable THEN ParseError
    ELSE Parsed([mobileconfig |-> [name |-> rest[1], pos |-> 0],
                 func |-> [fn |-> "install_profile"]])

\* RemoveProfile identifier (lines 71-81).
rem_prof_subparser(rest) ==
    IF Len(rest) # 1 THEN ParseError
    ELSE Parsed([identifier |-> rest[1], func |-> [fn |-> "remove_profile"]])

\* Mutant of command_subparser: the request type is checked against the
\* commands the tool knows.
command_subparser_Validating(rest) ==
    IF Len(rest) # 1 THEN ParseError
    ELSE IF rest[1] \notin SimpleCommandNames THEN ParseError
    ELSE Parsed([request_type |-> rest[1], func |-> simple_command(None)])

\* command request_type: any string, and a closure that captures None
\* (lines 93-103).
command_subparser(rest) ==
    IF Len(rest) # 1 THEN ParseError
    ELSE Parsed([request_type |-> rest[1], func |-> simple_command(None)])

\* The subparsers main() registers, chosen by the subcommand's name
\* (lines 121-155); a name that is not registered is a parse error.
subparsers(name, rest) ==
    CASE name \in SimpleCommandNames -> simple_command_subparser(name, rest)
      [] name = "DeviceInformation" -> dev_info_subparser(rest)
      [] name = "InstallProfile"    -> inst_prof_subparser(rest)
      [] name = "RemoveProfile"     -> rem_prof_subparser(rest)
      [] name = "command"           -> command_subparser(rest)
      [] OTHER                      -> ParseError

\* Mutant of parse_args: the value given with -u is dropped and the default
\* is kept.
parse_args_DefaultOnly(av, default) ==
    LET top == [uuid |-> default, random |-> av.random]
    IN  IF av.sub = << >> THEN Parsed(top)
        ELSE LET sub == subparsers(Head(av.sub), Tail(av.sub))
             IN  IF sub.status = "ok" THEN Parsed(sub.ns @@ top) ELSE sub

\* parser.parse_args() (line 157) with the parser of lines 107-155: uuid is
\* the given string or else the default computed when the parser was built;
\* random is whether -r was given; the attributes of the subcommand, func
\* among them, exist only if one was named.
parse_args(av, default) ==
    LET top == [uuid |-> IF av.uuid = None THEN default ELSE av.uuid[1],
                random |-> av.random]
    IN  IF av.sub = << >> THEN Parsed(top)
        ELSE LET sub == subparsers(Head(av.sub), Tail(av.sub))
             IN  IF sub.status = "ok" THEN Parsed(sub.ns @@ top) ELSE sub

\* ------------------------------------------------------- calling func

\* The exception args.func(args) ends in, "" if it returns.  Only
\* install_profile can raise: plistlib.Data is looked up before the file is
\* read, and it exists only in the plistlib of Python before 3.9.
Raised(args, hasData) ==
    IF args.func.fn # "install_profile" THEN ""
    ELSE IF ~hasData THEN "AttributeError"
    ELSE IF ~Files[args.mobileconfig.name].readable THEN "OSError"
    ELSE ""

\* args.func(args): the body the function returns (line 178).
CallFunc(args) ==
    CASE args.func.fn = "simple_command_body" ->
             simple_command_body(args.func.request_type, args)
      [] args.func.fn = "dev_info"        -> dev_info(args)
      [] args.func.fn = "install_profile" -> install_profile(args)
      [] args.func.fn = "remove_profile"  -> remove_profile(args)

\* What the call leaves behind in args: the closure's captured request_type
\* (nonlocal, line 15) and the position of the file that was read.
ArgsAfterCall(args) ==
    CASE args.func.fn = "simple_command_body" ->
             [args EXCEPT !.func.request_type =
                              simple_command_cell(args.func.request_type, args)]
      [] args.func.fn = "install_profile" ->
             [args EXCEPT !.mobileconfig.pos = Len(Files[args.mobileconfig.name].bytes)]
      [] OTHER -> args

\* What goes to standard output: the help text of print_help(), or the
\* envelope as a property list document.
HelpText == [kind |-> "help"]

plist(envelope) == [kind |-> "plist", root |-> envelope]

\* ---------------------------------------------------------------- state

VARIABLES
    plistlib_Data,    \* whether the interpreter's plistlib has Data (Python < 3.9)
    run,              \* the number of invocations started so far
    entropy,          \* the number of blocks os.urandom has handed out
    pc,               \* where the process is: idle, main, parse, check, random,
                      \* build, dump, return, done
    argv,             \* the command line of the current invocation
    default_uuid,     \* the default of -u/--uuid: str(uuid.uuid4()), line 112
    args,             \* the Namespace parse_args returned
    c,                \* the envelope (line 176), {} until it is built
    stdout,           \* what the invocation wrote to standard output
    stderr,           \* what it wrote to standard error
    exit_status,      \* None while it runs, then Some(status)
    emittedDefaults   \* history: the generated CommandUUIDs that earlier
                      \* invocations emitted

vars == << plistlib_Data, run, entropy, pc, argv, default_uuid, args, c,
           stdout, stderr, exit_status, emittedDefaults >>

NoArgv == [uuid |-> None, random |-> FALSE, sub |-> << >>]

Init ==
    /\ plistlib_Data \in BOOLEAN
    /\ run = 0
    /\ entropy = 0
    /\ pc = "idle"
    /\ argv = NoArgv
    /\ default_uuid = << >>
    /\ args = EmptyDict
    /\ c = EmptyDict
    /\ stdout = << >>
    /\ stderr = << >>
    /\ exit_status = None
    /\ emittedDefaults = {}

\* The plist documents among what was written to standard output.
PlistOutputs == SelectSeq(stdout, LAMBDA d : d.kind = "plist")

\* The generated CommandUUID the invocation that just ended emitted, if any.
EmittedDefault ==
    IF argv.uuid = None /\ PlistOutputs # << >>
    THEN { PlistOutputs[i].root.CommandUUID : i \in DOMAIN PlistOutputs }
    ELSE {}

\* The tool is invoked with command line av: a new process.
Invoke(av) ==
    /\ pc = "idle"
    /\ run < MaxRuns
    /\ run' = run + 1
    /\ argv' = av
    /\ pc' = "main"
    /\ UNCHANGED << plistlib_Data, entropy, default_uuid, args, c, stdout,
                    stderr, exit_status, emittedDefaults >>

\* Lines 107-155: the parser is built; the default of --uuid is computed
\* here, in every invocation, whether or not -u is given.
BuildParser ==
    /\ pc = "main"
    /\ entropy' = entropy + 1
    /\ default_uuid' = uuid4(entropy + 1)
    /\ pc' = "parse"
    /\ UNCHANGED << plistlib_Data, run, argv, args, c, stdout, stderr,
                    exit_status, emittedDefaults >>

\* Line 157: args = parser.parse_args(); parser.error() prints to standard
\* error and exits with 2.
ParseArgs ==
    /\ pc = "parse"
    /\ LET r == parse_args(argv, default_uuid)
       IN  IF r.status = "error"
           THEN /\ stderr' = Append(stderr, "usage: error")
                /\ exit_status' = Some(2)
                /\ pc' = "done"
                /\ UNCHANGED args
           ELSE /\ args' = r.ns
                /\ pc' = "check"
                /\ UNCHANGED << stderr, exit_status >>
    /\ UNCHANGED << plistlib_Data, run, entropy, argv, default_uuid, c, stdout,
                    emittedDefaults >>

\* Mutant of NotExclusive: only the missing command is caught, a command
\* together with --random is let through.
NotExclusive_OnlyNeither(ns) ==
    ~hasattr(ns, "func") /\ ~ns.random

\* The condition of lines 160-162: neither a command nor --random, or both.
NotExclusive(ns) ==
    \/ (~hasattr(ns, "func") /\ ~ns.random)
    \/ (hasattr(ns, "func") /\ ns.random)

\* Lines 159-164: command and random are mutually exclusive; parser.print_help()
\* writes the help to standard output and sys.exit(2) ends the run.
CheckExclusive ==
    /\ pc = "check"
    /\ IF NotExclusive(args)
       THEN /\ stdout' = Append(stdout, HelpText)
            /\ exit_status' = Some(2)
            /\ pc' = "done"
       ELSE /\ pc' = "random"
            /\ UNCHANGED << stdout, exit_status >>
    /\ UNCHANGED << plistlib_Data, run, entropy, argv, default_uuid, args, c,
                    stderr, emittedDefaults >>

\* random.choice(read_only_commands): any element of the list.
RandomChoices(list) == { list[i] : i \in DOMAIN list }

\* Lines 166-174: with --random, func becomes the closure over a command
\* chosen at random from read_only_commands.
SelectRandom ==
    /\ pc = "random"
    /\ IF args.random
       THEN \E n \in RandomChoices(read_only_commands) :
                args' = [func |-> simple_command(Some(n))] @@ args
       ELSE UNCHANGED args
    /\ pc' = "build"
    /\ UNCHANGED << plistlib_Data, run, entropy, argv, default_uuid, c, stdout,
                    stderr, exit_status, emittedDefaults >>

\* Lines 176-179: the envelope is built around the body args.func(args)
\* returns; an exception in the call ends the run with a traceback and
\* exit status 1, and no envelope.
BuildEnvelope ==
    /\ pc = "build"
    /\ IF Raised(args, plistlib_Data) # ""
       THEN /\ stderr' = Append(stderr, "Traceback: " \o Raised(args, plistlib_Data))
            /\ exit_status' = Some(1)
            /\ pc' = "done"
            /\ UNCHANGED << args, c >>
       ELSE /\ c' = [CommandUUID |-> args.uuid, Command |-> CallFunc(args)]
            /\ args' = ArgsAfterCall(args)
            /\ pc' = "dump"
            /\ UNCHANGED << stderr, exit_status >>
    /\ UNCHANGED << plistlib_Data, run, entropy, argv, default_uuid, stdout,
                    emittedDefaults >>

\* Line 180: plistlib.dump(c, sys.stdout.buffer).
Dump ==
    /\ pc = "dump"
    /\ stdout' = Append(stdout, plist(c))
    /\ pc' = "return"
    /\ UNCHANGED << plistlib_Data, run, entropy, argv, default_uuid, args, c,
                    stderr, exit_status, emittedDefaults >>

\* main() returns and the interpreter exits with status 0 (lines 183-184).
Return ==
    /\ pc = "return"
    /\ exit_status' = Some(0)
    /\ pc' = "done"
    /\ UNCHANGED << plistlib_Data, run, entropy, argv, default_uuid, args, c,
                    stdout, stderr, emittedDefaults >>

\* The process is gone, and nothing of it is kept: what it wrote stays only
\* in the history.
ProcessExit ==
    /\ pc = "done"
    /\ emittedDefaults' = emittedDefaults \cup EmittedDefault
    /\ pc' = "idle"
    /\ argv' = NoArgv
    /\ default_uuid' = << >>
    /\ args' = EmptyDict
    /\ c' = EmptyDict
    /\ stdout' = << >>
    /\ stderr' = << >>
    /\ exit_status' = None
    /\ UNCHANGED << plistlib_Data, run, entropy >>

Next ==
    \/ \E av \in Argvs : Invoke(av)
    \/ BuildParser
    \/ ParseArgs
    \/ CheckExclusive
    \/ SelectRandom
    \/ BuildEnvelope
    \/ Dump
    \/ Return
    \/ ProcessExit

Spec == Init /\ [][Next]_vars

\* --------------------------------------------------------------- claims

\* A subcommand is named on the command line.
HasSub == argv.sub # << >>

\* An invocation is under way or has ended.
Invoked == pc # "idle"

\* main() has passed the point named: the envelope has been built.
Built == pc \in { "dump", "return" } \/ (pc = "done" /\ c # EmptyDict)

\* C1: an invocation with both a subcommand and --random, or with neither,
\* ends with exit status 2; it never gets past the check of lines 160-164,
\* never builds the envelope and writes no property list to standard output.
C1_ExclusiveExitsTwo ==
    (Invoked /\ (HasSub <=> argv.random)) =>
        /\ pc \in { "main", "parse", "check", "done" }
        /\ c = EmptyDict
        /\ PlistOutputs = << >>
        /\ pc = "done" => exit_status = Some(2)

\* C1, the case happening: both given, the arguments parsed, the help printed
\* by the check and the run ended with status 2.
C1_Witness ==
    /\ pc = "done"
    /\ argv.random
    /\ argv.sub = << "ProfileList" >>
    /\ stdout = << HelpText >>
    /\ exit_status = Some(2)

\* A parameterless subcommand is invoked without --random.
FixedRun ==
    /\ Invoked
    /\ ~argv.random
    /\ Len(argv.sub) = 1
    /\ argv.sub[1] \in SimpleCommandNames

\* C2: a fixed parameterless subcommand, without --random, builds the body
\* {RequestType: <its own name>} with no other key, and the run emits it.
C2_FixedBody ==
    FixedRun =>
        /\ Built => /\ DOMAIN c.Command = { "RequestType" }
                    /\ c.Command.RequestType = argv.sub[1]
        /\ pc = "done" => /\ Len(PlistOutputs) = 1
                          /\ PlistOutputs[1].root.Command =
                                 [RequestType |-> argv.sub[1]]

\* C2, the case happening: a command in the middle of the list was built.
C2_Witness ==
    /\ FixedRun
    /\ pc = "done"
    /\ argv.sub[1] = "DeviceLocation"
    /\ c.Command = [RequestType |-> "DeviceLocation"]

\* DeviceInformation is invoked without --random.
DevInfoRun ==
    /\ Invoked
    /\ ~argv.random
    /\ HasSub
    /\ Head(argv.sub) = "DeviceInformation"

\* C3: DeviceInformation with no query builds {RequestType: DeviceInformation}
\* without a Queries key; with queries it builds the body with Queries equal
\* to the queries given, in their order.
C3_DevInfoQueries ==
    DevInfoRun =>
        /\ Built =>
              /\ c.Command.RequestType = "DeviceInformation"
              /\ IF Tail(argv.sub) = << >>
                 THEN DOMAIN c.Command = { "RequestType" }
                 ELSE /\ DOMAIN c.Command = { "RequestType", "Queries" }
                      /\ c.Command.Queries = Tail(argv.sub)
        /\ pc = "done" => /\ Len(PlistOutputs) = 1
                          /\ PlistOutputs[1].root = c

\* C3, the case happening: two different queries, the second given first.
C3_Witness ==
    /\ DevInfoRun
    /\ pc = "done"
    /\ Tail(argv.sub) = << "OSVersion", "Model" >>
    /\ c.Command = [RequestType |-> "DeviceInformation",
                    Queries |-> << "OSVersion", "Model" >>]

\* The CommandUUIDs of the envelopes written to standard output.
EmittedUUIDs == { PlistOutputs[i].root.CommandUUID : i \in DOMAIN PlistOutputs }

\* C4: the CommandUUID of the envelope, built or emitted, on every command
\* path, is the string given with -u/--uuid when one is given; otherwise it is
\* the UUID generated in this invocation, which no earlier invocation emitted.
C4_CommandUUID ==
    \A u \in EmittedUUIDs \cup (IF Built THEN { c.CommandUUID } ELSE {}) :
        IF argv.uuid # None
        THEN u = argv.uuid[1]
        ELSE u = default_uuid /\ u \notin emittedDefaults

\* C4, the case happening: an invocation without -u emitted its envelope
\* after an earlier invocation without -u had emitted one.
C4_Witness ==
    /\ pc = "done"
    /\ argv.uuid = None
    /\ EmittedUUIDs = { default_uuid }
    /\ emittedDefaults # {}

\* C5 as stated: every emitted CommandUUID is a syntactically valid UUID
\* string, whether generated or given with -u/--uuid.
C5_AlwaysValidUUID ==
    \A u \in EmittedUUIDs : IsValidUUID(u)

\* C5 as amended: a generated CommandUUID is a syntactically valid UUID string;
\* a string given with -u/--uuid is emitted as it is, unvalidated, so the
\* emitted CommandUUID is valid exactly when no string was given or the given
\* string is a valid UUID itself.
C5_ValidUnlessGiven ==
    \A u \in EmittedUUIDs :
        /\ argv.uuid = None => IsValidUUID(u)
        /\ IsValidUUID(u) <=> (argv.uuid = None \/ IsValidUUID(argv.uuid[1]))

\* C5, the case happening: a generated CommandUUID was emitted.
C5_Witness ==
    /\ pc = "done"
    /\ argv.uuid = None
    /\ EmittedUUIDs # {}
    /\ \A u \in EmittedUUIDs : IsValidUUID(u) /\ u[15] = "4"

\* --random is given without a subcommand.
RandomRun ==
    /\ Invoked
    /\ argv.random
    /\ ~HasSub

\* The four read-only commands the specification names.
ReadOnlyNames ==
    { "SecurityInfo", "CertificateList", "ProfileList", "ProvisioningProfileList" }

\* C6: with --random and no subcommand the body is {RequestType: n} with n one
\* of the four read-only commands and no other key, that body is what is
\* emitted, and when the choice is made each of the four can be chosen.
C6_RandomReadOnly ==
    RandomRun =>
        /\ Built => /\ DOMAIN c.Command = { "RequestType" }
                    /\ c.Command.RequestType \in ReadOnlyNames
        /\ pc = "done" => /\ Len(PlistOutputs) = 1
                          /\ PlistOutputs[1].root = c
        /\ pc = "random" =>
               \A n \in ReadOnlyNames :
                   ENABLED (SelectRandom /\ args'.func.request_type = Some(n))

\* C6, the case happening: the last command of the list was chosen and emitted.
C6_Witness ==
    /\ RandomRun
    /\ pc = "done"
    /\ Len(PlistOutputs) = 1
    /\ PlistOutputs[1].root.Command = [RequestType |-> "ProvisioningProfileList"]

\* The arguments are valid: they parse, and a profile that is named can be read.
ValidArgs ==
    /\ parse_args(argv, default_uuid).status = "ok"
    /\ (HasSub /\ Head(argv.sub) = "InstallProfile") => Files[argv.sub[2]].readable

\* Exactly one of subcommand and --random is given, with valid arguments.
ValidRun ==
    /\ Invoked
    /\ HasSub # argv.random
    /\ ValidArgs

\* What C7 says of every run, whatever its arguments: at most one property
\* list is written, only after the envelope is built (which is after the
\* arguments are parsed), it is the envelope, its body has a RequestType, and
\* exit status 0 comes only after it.
SingleShotOrder ==
    /\ Len(PlistOutputs) <= 1
    /\ c # EmptyDict => pc \in { "dump", "return", "done" }
    /\ PlistOutputs # << >> =>
          /\ pc \in { "return", "done" }
          /\ c # EmptyDict
          /\ PlistOutputs[1].root = c
          /\ "RequestType" \in DOMAIN c.Command
    /\ (pc = "done" /\ exit_status = Some(0)) => Len(PlistOutputs) = 1

\* C7: a run parses its arguments, builds one body, emits one output and
\* exits: the property list is written at most once, never before the body is
\* built, with one RequestType, and exactly once, followed by exit status 0,
\* when exactly one of subcommand and --random is given with valid arguments.
C7_SingleShot ==
    /\ SingleShotOrder
    /\ (pc = "done" /\ ValidRun) =>
          /\ Len(PlistOutputs) = 1
          /\ exit_status = Some(0)

\* C7 where it holds: on an interpreter whose plistlib has Data, and on any
\* interpreter for every command but InstallProfile.
C7_SingleShotButInstallProfile ==
    /\ SingleShotOrder
    /\ (pc = "done" /\ ValidRun
          /\ (plistlib_Data \/ ~HasSub \/ Head(argv.sub) # "InstallProfile")) =>
          /\ Len(PlistOutputs) = 1
          /\ exit_status = Some(0)

\* InstallProfile is invoked, without --random, on a file that can be read.
InstallRun ==
    /\ Invoked
    /\ ~argv.random
    /\ Len(argv.sub) = 2
    /\ argv.sub[1] = "InstallProfile"
    /\ Files[argv.sub[2]].readable

\* The body C8 describes: RequestType, and Payload holding all the file's bytes.
IsInstallBody(body) ==
    /\ DOMAIN body = { "RequestType", "Payload" }
    /\ body.RequestType = "InstallProfile"
    /\ body.Payload = Data(Files[argv.sub[2]].bytes)

\* C8: InstallProfile on a readable file ends with the body
\* {RequestType: InstallProfile, Payload: <all the bytes of the file>} built
\* and emitted.
C8_InstallProfilePayload ==
    (InstallRun /\ pc = "done") =>
        /\ c # EmptyDict
        /\ IsInstallBody(c.Command)
        /\ Len(PlistOutputs) = 1

\* C8 where it holds: on an interpreter whose plistlib has Data.
C8_PayloadWhereDataExists ==
    (InstallRun /\ plistlib_Data) =>
        /\ Built => IsInstallBody(c.Command)
        /\ pc = "done" => /\ Len(PlistOutputs) = 1
                          /\ IsInstallBody(PlistOutputs[1].root.Command)

\* The generic `command <request_type>` is invoked without --random.
GenericRun ==
    /\ Invoked
    /\ ~argv.random
    /\ Len(argv.sub) = 2
    /\ argv.sub[1] = "command"

\* The body the fixed subcommand named n builds on the same command line.
FixedBodyOf(n) ==
    CallFunc(parse_args([argv EXCEPT !.sub = << n >>], default_uuid).ns)

\* C9: `command s` accepts any string s (one that is no MDM command, the name
\* of a command that takes arguments, the empty string) and builds and emits
\* the body {RequestType: s} with no other key; for s in the fixed list that is
\* the body the fixed subcommand s builds.
C9_GenericCommand ==
    GenericRun =>
        /\ Built => /\ DOMAIN c.Command = { "RequestType" }
                    /\ c.Command.RequestType = argv.sub[2]
                    /\ argv.sub[2] \in SimpleCommandNames =>
                           c.Command = FixedBodyOf(argv.sub[2])
        /\ pc = "done" => /\ exit_status = Some(0)
                          /\ Len(PlistOutputs) = 1
                          /\ PlistOutputs[1].root = c

\* C9, the case happening: a string that is no MDM command was emitted.
C9_Witness ==
    /\ GenericRun
    /\ pc = "done"
    /\ exit_status = Some(0)
    /\ PlistOutputs[1].root.Command = [RequestType |-> "NotAnMDMCommand"]

\* InstallProfile is given a path that cannot be opened, or one that opens
\* and cannot be read.
UnreadableRun ==
    /\ Invoked
    /\ Len(argv.sub) = 2
    /\ argv.sub[1] = "InstallProfile"
    /\ ~Files[argv.sub[2]].readable

\* C10: InstallProfile on a path that cannot be opened or read ends with a
\* non-zero exit status and a diagnostic, with no envelope built and no
\* property list written, with or without --random and -u; a path that cannot
\* be opened ends the run in parse_args, with status 2 and the message on
\* standard error, before the command/random check.
C10_UnreadableFailsFast ==
    UnreadableRun =>
        /\ c = EmptyDict
        /\ PlistOutputs = << >>
        /\ pc = "done" => /\ exit_status \in { Some(1), Some(2) }
                          /\ stderr # << >> \/ stdout = << HelpText >>
        /\ ~Files[argv.sub[2]].openable =>
              /\ pc \in { "main", "parse", "done" }
              /\ stdout = << >>
              /\ pc = "done" => exit_status = Some(2) /\ stderr # << >>

\* C10, the case happening: --random and -u given as well, the open failed and
\* the run ended with status 2.
C10_Witness ==
    /\ UnreadableRun
    /\ ~Files[argv.sub[2]].openable
    /\ argv.random
    /\ argv.uuid # None
    /\ pc = "done"
    /\ exit_status = Some(2)
    /\ stderr # << >>

====
